---------------------------- MODULE Spec2Model ----------------------------
(* Optimistic move synchronisation of src/web/script.js.                    *)
(*                                                                          *)
(* The script keeps one module-level snapshot `prev`, installs the two      *)
(* handlers onDragStart and onDrop on the board widget `board1`, and posts  *)
(* one validation request per drop whose success continuation rolls the     *)
(* board back to `prev` unless the response data is "valid".                *)
(*                                                                          *)
(* The browser runs one task at a time: a drag-start (mouse down), a drop   *)
(* (mouse up: the onDrop handler followed by the widget placing the piece), *)
(* the success continuation of a request, or the silent failure of a        *)
(* request.  Requests answer in any order.                                  *)
EXTENDS Integers, Sequences, FiniteSets, TLC

(***************************************************************************)
(* Bounds of the model                                                     *)
(***************************************************************************)

\* Number of drags (each ends in exactly one drop) explored in one run.
MaxDrops == 2

(***************************************************************************)
(* Values                                                                  *)
(***************************************************************************)

\* A fragment of the chess board: the squares the explored moves touch.
Squares == {"e1", "e2", "e4"}

\* What a square of a position object holds.
Empty == "empty"

Pieces == {"wK", "wP"}

\* Where the mouse can be released: on a square or outside the board.
Offboard == "offboard"

Targets == Squares \cup {Offboard}

\* config.position = 'start', restricted to Squares.
StartPosition == [s \in Squares |-> CASE s = "e1" -> "wK"
                                      [] s = "e2" -> "wP"
                                      [] OTHER    -> Empty]

\* Response data the server can send: the affirmative token, the bodies the
\* specification lists, and near misses of the token.
Bodies == {"valid", "", "invalid", "error", "Valid"}

\* `var prev;` : undefined until the first drag-start.  A snapshot is kept
\* as a one-element sequence, undefined as the empty sequence.
Undefined == << >>

Snapshot(pos) == << pos >>

\* No drag in progress (the widget's dragging state).
NoDrag == << >>

\* No event yet.
NoBody == "-"

(***************************************************************************)
(* State                                                                   *)
(***************************************************************************)

VARIABLES
  board,      \* board1's current position (the displayed position)
  prev,       \* the script's snapshot variable
  drag,       \* the widget's drag in progress: << [source, piece] >> or NoDrag
  inflight,   \* requests posted and neither answered nor failed
  task,       \* "idle", or "dropped" between onDrop's return and the
              \* widget placing the piece (same browser task)
  moves,      \* history: one record per drop, in drop order
  snaps,      \* history: the position captured by each drag-start, in order
  origin,     \* history: for each square, the drop that last wrote it (0: none)
  prevOrigin, \* history: `origin` as it was when `prev` was captured
  last        \* history: the event that produced this state

vars == << board, prev, drag, inflight, task, moves, snaps, origin,
           prevOrigin, last >>

Event(kind, id, body) == [kind |-> kind, id |-> id, body |-> body]

(***************************************************************************)
(* The script                                                              *)
(***************************************************************************)

\* board1.position(): a copy of the current position.
getPosition(cur) == cur

\* A set that the widget ignores.
setPositionIgnored(cur, p) == cur

\* board1.position(p, false): set the position to p without animation; an
\* invalid value (undefined) is refused and the position stays.
setPosition(cur, p) == IF p = Undefined THEN cur ELSE p[1]

\* A drag-start handler that keeps the first snapshot it took.
onDragStartKeepFirst(oldPrev, cur) ==
  IF oldPrev = Undefined THEN Snapshot(getPosition(cur)) ELSE oldPrev

\* A drag-start handler whose assignment does not reach the stored snapshot.
onDragStartNoStore(oldPrev, cur) == oldPrev

\* onDragStart: prev = board1.position();
onDragStart(oldPrev, cur) == Snapshot(getPosition(cur))

\* A comparison that accepts the token in any letter case.
isRejectedIgnoreCase(data) == data \notin {"valid", "Valid"}

\* A comparison that rolls back on the explicit rejection token only.
isRejectedOnlyInvalid(data) == data = "invalid"

\* A comparison that rejects every response.
isRejectedAlways(data) == TRUE

\* data != "valid"
isRejected(data) == data # "valid"

\* The continuation: if (data != "valid") board1.position(prev, false);
callback(data, cur, snapshot) ==
  IF isRejected(data) THEN setPosition(cur, snapshot) ELSE cur

\* A path with the two squares swapped.
movePathSwapped(source, target) == "move/" \o target \o "/" \o source

\* "move/" + source + "/" + target
movePath(source, target) == "move/" \o source \o "/" \o target

\* A post that sends nothing for a drop on the source square.
postSkipNoop(requests, id, source, target) ==
  IF source = target THEN requests
  ELSE requests \cup {[id |-> id, path |-> movePath(source, target)]}

\* $.post(path, callback): one more request in flight, with its continuation.
post(requests, id, source, target) ==
  requests \cup {[id |-> id, path |-> movePath(source, target)]}

\* A failure handler that treats a transport failure as a rejection.
onFailRollback(cur, snapshot) == setPosition(cur, snapshot)

\* $.post is given a success continuation only: a failed request runs no
\* code of the script.
onFail(cur, snapshot) == cur

(***************************************************************************)
(* The widget (ChessBoard('board1', config), draggable: true)              *)
(***************************************************************************)

\* The widget completes a drop: off the board the piece snaps back, on a
\* square the dragged piece leaves its source and lands on the target.
dropPiece(cur, source, target, piece) ==
  IF target = Offboard THEN cur
  ELSE [s \in Squares |-> IF s = target THEN piece
                          ELSE IF s = source THEN Empty
                          ELSE cur[s]]

\* The squares a completed drop changes are marked with the drop's number.
markDrop(org, cur, new, id) ==
  [s \in Squares |-> IF cur[s] # new[s] THEN id ELSE org[s]]

(***************************************************************************)
(* Initial state: the script has run to its last line                      *)
(***************************************************************************)

Init ==
  /\ board = StartPosition
  /\ prev = Undefined
  /\ drag = NoDrag
  /\ inflight = {}
  /\ task = "idle"
  /\ moves = << >>
  /\ snaps = << >>
  /\ origin = [s \in Squares |-> 0]
  /\ prevOrigin = Undefined
  /\ last = Event("init", 0, NoBody)

(***************************************************************************)
(* Actions                                                                 *)
(***************************************************************************)

\* Mouse down on an occupied square: the widget calls onDragStart and
\* starts dragging the piece.
DragStart(s) ==
  /\ task = "idle"
  /\ drag = NoDrag
  /\ Len(snaps) < MaxDrops
  /\ board[s] # Empty
  /\ prev' = onDragStart(prev, board)
  /\ prevOrigin' = onDragStart(prevOrigin, origin)
  /\ drag' = << [source |-> s, piece |-> board[s]] >>
  /\ snaps' = Append(snaps, board)
  /\ last' = Event("dragStart", Len(snaps) + 1, NoBody)
  /\ UNCHANGED << board, inflight, task, moves, origin >>

\* Mouse up: the widget calls onDrop(source, target, ...), which posts the
\* request and returns.
OnDrop(t) ==
  /\ task = "idle"
  /\ drag # NoDrag
  /\ LET id == Len(moves) + 1
         src == drag[1].source
     IN /\ inflight' = post(inflight, id, src, t)
        /\ moves' = Append(moves, [source |-> src, target |-> t,
                                   piece |-> drag[1].piece,
                                   stage |-> "dropped", opt |-> board])
        /\ last' = Event("onDrop", id, NoBody)
  /\ task' = "dropped"
  /\ UNCHANGED << board, prev, drag, snaps, origin, prevOrigin >>

\* Still in the mouse-up task: onDrop returned neither 'snapback' nor
\* 'trash', so the widget completes the drop.  onDrop reads no position, so
\* the script cannot tell whether the widget places the piece before or
\* after calling it; no other task runs in between.
DropPiece ==
  /\ task = "dropped"
  /\ LET id == Len(moves)
         m == moves[id]
         new == dropPiece(board, m.source, m.target, m.piece)
     IN /\ board' = new
        /\ origin' = markDrop(origin, board, new, id)
        /\ moves' = [moves EXCEPT ![id].stage = "awaiting", ![id].opt = new]
        /\ last' = Event("dropPiece", id, NoBody)
  /\ drag' = NoDrag
  /\ task' = "idle"
  /\ UNCHANGED << prev, inflight, snaps, prevOrigin >>

\* A continuation that posts the request again when it rolls back.
RespondReposting(r, data) ==
  /\ task = "idle"
  /\ r \in inflight
  /\ inflight' = IF isRejected(data) THEN inflight ELSE inflight \ {r}
  /\ board' = callback(data, board, prev)
  /\ origin' = callback(data, origin, prevOrigin)
  /\ moves' = [moves EXCEPT ![r.id].stage =
                 IF data = "valid" THEN "accepted" ELSE "rejected"]
  /\ last' = Event("response", r.id, data)
  /\ UNCHANGED << prev, drag, task, snaps, prevOrigin >>

\* A continuation that clears the stored snapshot once the drop is settled.
RespondClearing(r, data) ==
  /\ task = "idle"
  /\ r \in inflight
  /\ inflight' = inflight \ {r}
  /\ board' = callback(data, board, prev)
  /\ origin' = callback(data, origin, prevOrigin)
  /\ moves' = [moves EXCEPT ![r.id].stage =
                 IF data = "valid" THEN "accepted" ELSE "rejected"]
  /\ last' = Event("response", r.id, data)
  /\ prev' = Undefined
  /\ prevOrigin' = Undefined
  /\ UNCHANGED << drag, task, snaps >>

\* A request succeeds with some body: its continuation runs.
Respond(r, data) ==
  /\ task = "idle"
  /\ r \in inflight
  /\ inflight' = inflight \ {r}
  /\ board' = callback(data, board, prev)
  /\ origin' = callback(data, origin, prevOrigin)
  /\ moves' = [moves EXCEPT ![r.id].stage =
                 IF data = "valid" THEN "accepted" ELSE "rejected"]
  /\ last' = Event("response", r.id, data)
  /\ UNCHANGED << prev, drag, task, snaps, prevOrigin >>

\* A request fails (network error, error status): no continuation runs.
TransportFail(r) ==
  /\ task = "idle"
  /\ r \in inflight
  /\ inflight' = inflight \ {r}
  /\ board' = onFail(board, prev)
  /\ origin' = onFail(origin, prevOrigin)
  /\ moves' = [moves EXCEPT ![r.id].stage = "failed"]
  /\ last' = Event("fail", r.id, NoBody)
  /\ UNCHANGED << prev, drag, task, snaps, prevOrigin >>

Next ==
  \/ \E s \in Squares : DragStart(s)
  \/ \E t \in Targets : OnDrop(t)
  \/ DropPiece
  \/ \E r \in inflight, data \in Bodies : Respond(r, data)
  \/ \E r \in inflight : TransportFail(r)

Spec == Init /\ [][Next]_vars


\* The transport settles request `id`: it answers it or it fails it.
Resolve(id) ==
  \E r \in inflight :
    /\ r.id = id
    /\ \/ \E data \in Bodies : Respond(r, data)
       \/ TransportFail(r)

\* The browser finishes the mouse-up task it started, and every request the
\* transport holds is answered or fails in the end.  Nothing obliges the
\* user to drag or to drop.
FairSpec ==
  /\ Spec
  /\ WF_vars(DropPiece)
  /\ \A id \in 1..MaxDrops : WF_vars(Resolve(id))

(***************************************************************************)
(* Vocabulary of the properties                                            *)
(***************************************************************************)

DropIds == 1..Len(moves)

\* The position captured by the most recent drag-start.
LatestSnap == snaps[Len(snaps)]

\* This state was produced by the continuation of request `last.id`.
Responded == last.kind = "response"

RolledBack == Responded /\ last.body # "valid"

Accepted == Responded /\ last.body = "valid"

\* The request a drop from `source` to `target` is expected to put in flight.
RequestFor(id, source, target) ==
  [id |-> id, path |-> "move/" \o source \o "/" \o target]


(***************************************************************************)
(* Properties                                                              *)
(***************************************************************************)

\* C1. Rollback correctness: right after the continuation has processed a
\* response whose body is not "valid", whatever else is outstanding and in
\* whatever order the responses came, the displayed position is the
\* position captured by the most recent drag-start.
C1_RollbackCorrectness ==
  RolledBack => /\ Len(snaps) > 0
                /\ board = LatestSnap

\* A rejection processed out of order (a later drop's response while an
\* earlier request is still outstanding) that changed the display.
C1_Witness ==
  /\ RolledBack
  /\ \E r \in inflight : r.id < last.id
  /\ board = LatestSnap
  /\ board # moves[last.id].opt

\* C2. Acceptance idempotence, as claimed: right after a "valid" response
\* is processed, the displayed position is the position displayed right
\* after that same drop, whatever happened in between.
C2_AcceptanceIdempotence ==
  Accepted => board = moves[last.id].opt

\* C3. Never left unvalidated, as claimed: with no request outstanding, no
\* square of the displayed position was last written by a drop whose
\* response was not "valid".
C3_NeverUnvalidated ==
  inflight = {} =>
    \A s \in Squares :
      origin[s] # 0 => moves[origin[s]].stage # "rejected"

\* C4. Single slot, as claimed: at most one stored snapshot and at most one
\* request in flight.
C4_SingleSlot ==
  /\ Len(prev) <= 1
  /\ Cardinality(inflight) <= 1

\* C5. Fail-closed decoding: the continuation of request r rolls back to the
\* stored snapshot for every body other than "valid", the state it leaves
\* is fixed by the state before it (the same for all such bodies), and the
\* body "valid" alone leaves the displayed position as it was.
C5_FailClosed ==
  [][ \A r \in inflight :
        (last'.kind = "response" /\ last'.id = r.id) =>
          /\ last'.body # "valid" =>
               /\ prev # Undefined
               /\ << board', prev', drag', inflight', task' >>
                    = << prev[1], prev, drag, inflight \ {r}, task >>
          /\ last'.body = "valid" => board' = board
    ]_vars

\* Rolled back on the empty body and on a near miss of the token, each time
\* undoing a displayed move.
C5_Witness ==
  /\ RolledBack
  /\ last.body \in {"", "Valid"}
  /\ board = prev[1]
  /\ board # moves[last.id].opt
  /\ moves[last.id].stage = "rejected"

\* C6. Snapshot replacement: a drag-start stores the position displayed at
\* that instant whatever was stored; a rollback restores the capture of the
\* latest drag-start and no different earlier capture, also when the
\* response belongs to a drop made after an earlier drag-start.
C6_SnapshotReplacement ==
  [][ /\ last'.kind = "dragStart" =>
           /\ prev' = Snapshot(board)
           /\ snaps' = Append(snaps, board)
      /\ (last'.kind = "response" /\ last'.body # "valid") =>
           /\ board' = LatestSnap
           /\ \A k \in 1..Len(snaps) :
                snaps[k] # LatestSnap => board' # snaps[k]
    ]_vars

\* The rejected drop followed drag-start d1, a later drag-start d2 captured
\* a different position, and the rollback restored d2's capture.
C6_Witness ==
  /\ RolledBack
  /\ last.id < Len(snaps)
  /\ snaps[last.id] # LatestSnap
  /\ board = LatestSnap
  /\ prev = Snapshot(LatestSnap)


\* The cycle of drop i is over: its verdict has been processed.
Settled(i) == moves[i].stage \in {"accepted", "rejected"}

\* The cycle of drop i can still reach its verdict: the mouse-up task is
\* still running, or its request is still in flight.
CanSettle(i) ==
  \/ moves[i].stage = "dropped"
  \/ \E r \in inflight : r.id = i

\* C7. Every cycle returns to Idle, as claimed: no reachable state holds a
\* started cycle that is neither over nor able to reach its verdict.
C7_EveryCycleCompletes ==
  \A i \in DropIds : Settled(i) \/ CanSettle(i)

\* C7, amended. Every drop whose request the transport does not fail is in
\* the end followed by the processing of its verdict; a drop whose request
\* failed stays unsettled for ever, and nothing else keeps a cycle open.
C7_SettlesUnlessTransportFails ==
  /\ \A i \in 1..MaxDrops :
       (i \in DropIds) ~> (i \in DropIds /\ (Settled(i) \/ moves[i].stage = "failed"))
  /\ [][ \A i \in DropIds :
           /\ moves[i].stage = "failed" => moves'[i].stage = "failed"
           /\ Settled(i) => moves'[i] = moves[i]
       ]_vars

\* Both ends of the amended claim in one run: one drop rejected and rolled
\* back with nothing left in flight, another stuck after a transport failure.
C7_Witness ==
  /\ RolledBack
  /\ board = prev[1]
  /\ inflight = {}
  /\ task = "idle"
  /\ \E i \in DropIds : moves[i].stage = "failed"

\* C8. No timeout, no failure handling: a failed request runs no
\* continuation, then or later, and leaves the displayed position and the
\* snapshot as they were; the displayed position changes only when the
\* widget completes a drop or a continuation runs; the snapshot changes
\* only at a drag-start.
C8_NoFailureHandling ==
  [][ /\ last'.kind = "fail" =>
           /\ board' = board
           /\ prev' = prev
           /\ moves'[last'.id].stage = "failed"
           /\ \A r \in inflight' : r.id # last'.id
      /\ last'.kind = "response" => moves[last'.id].stage = "awaiting"
      /\ board' # board => last'.kind \in {"dropPiece", "response"}
      /\ prev' # prev => last'.kind = "dragStart"
    ]_vars

\* A request has just failed: the optimistic position of its drop is still
\* displayed, it differs from the snapshot, and nothing is left in flight.
C8_Witness ==
  /\ last.kind = "fail"
  /\ moves[last.id].stage = "failed"
  /\ board = moves[last.id].opt
  /\ board # prev[1]
  /\ inflight = {}

\* C9. The onDrop handler posts exactly one request, whose path is
\* "move/" + source + "/" + target for the dragged piece's source square and
\* this drop's target, keeps every other request, and returns with the
\* request still in flight and with the snapshot and the displayed position
\* unchanged.
C9_OneRequestPerDrop ==
  [][ last'.kind = "onDrop" =>
        LET id == last'.id IN
          /\ id = Len(moves) + 1
          /\ moves'[id].source = drag[1].source
          /\ inflight \subseteq inflight'
          /\ Cardinality(inflight' \ inflight) = 1
          /\ \A r \in inflight' \ inflight :
               /\ r.id = id
               /\ r.path = "move/" \o moves'[id].source \o "/" \o moves'[id].target
          /\ board' = board
          /\ prev' = prev
    ]_vars

\* onDrop has just returned for e2 -> e4 while an earlier request is still
\* outstanding: the new request is addressed "move/e2/e4".
C9_Witness ==
  /\ last.kind = "onDrop"
  /\ moves[last.id].source = "e2"
  /\ moves[last.id].target = "e4"
  /\ \E r \in inflight : r.id = last.id /\ r.path = "move/e2/e4"
  /\ \E r \in inflight : r.id # last.id
  /\ board = LatestSnap

\* C10. A drop on its own source square is handled like any other: onDrop
\* posts its request, and its continuation rolls back to the stored snapshot
\* unless the body is "valid".
C10_NoopDropFullCycle ==
  [][ /\ (last'.kind = "onDrop" /\ drag[1].source = moves'[last'.id].target) =>
           RequestFor(last'.id, drag[1].source, drag[1].source)
             \in inflight' \ inflight
      /\ (last'.kind = "response"
            /\ moves[last'.id].source = moves[last'.id].target) =>
           /\ RequestFor(last'.id, moves[last'.id].source, moves[last'.id].source)
                \in inflight \ inflight'
           /\ board' = IF last'.body = "valid" THEN board ELSE prev[1]
    ]_vars

\* The response to a drop on its own square was rejected and the rollback
\* undid another drop displayed in the meantime.
C10_Witness ==
  /\ RolledBack
  /\ moves[last.id].source = moves[last.id].target
  /\ moves[last.id].stage = "rejected"
  /\ board = prev[1]
  /\ \E i \in DropIds : i # last.id /\ moves[i].opt # board


\* The stored snapshot was captured by a drag-start later than drop i's own
\* and already shows a square as drop i wrote it.
StaleFor(i) ==
  /\ i < Len(snaps)
  /\ prevOrigin # Undefined
  /\ \E s \in Squares : prevOrigin[1][s] = i

\* C11. The stale-snapshot race is reachable: a drag-start made while drop
\* i's request is outstanding stores a position that contains drop i, and
\* the later rejection of drop i then restores that position; the display
\* after the rejection still shows drop i and differs from the position
\* displayed before drop i's drag-start.
C11_StaleSnapshotRace ==
  [][ \A r \in inflight :
        (StaleFor(r.id) /\ last'.kind = "response" /\ last'.id = r.id
           /\ last'.body # "valid") =>
          /\ board' = LatestSnap
          /\ board' # snaps[r.id]
          /\ \E s \in Squares : origin'[s] = r.id /\ board'[s] # snaps[r.id][s]
    ]_vars

\* The race has happened: drop 1 was rejected after a second drag-start, and
\* the board shows the second capture, not the position before drop 1.
C11_Witness ==
  /\ RolledBack
  /\ last.id < Len(snaps)
  /\ moves[last.id].stage = "rejected"
  /\ board = LatestSnap
  /\ board # snaps[last.id]
  /\ \E s \in Squares : origin[s] = last.id


\* C12. Rollback emits no events: a rejecting continuation sets the
\* displayed position to the stored snapshot and fires neither onDragStart
\* nor onDrop: no request is posted (the answered one leaves, the others
\* stay), no drop and no drag-start is recorded, the snapshot and the drag
\* in progress are untouched, so the rejection starts no further cycle.
C12_RollbackEmitsNoEvents ==
  [][ (last'.kind = "response" /\ last'.body # "valid") =>
        /\ board' = prev[1]
        /\ inflight' \subseteq inflight
        /\ Cardinality(inflight') = Cardinality(inflight) - 1
        /\ \A r \in inflight' : r.id # last'.id
        /\ Len(moves') = Len(moves)
        /\ Len(snaps') = Len(snaps)
        /\ prev' = prev
        /\ drag' = drag
        /\ task' = "idle"
    ]_vars

\* A rollback that changed the display has just run, the rejected drop has
\* no request left, and the run holds exactly the requests of the other
\* drop.
C12_Witness ==
  /\ RolledBack
  /\ board = prev[1]
  /\ board # moves[last.id].opt
  /\ Len(moves) = 2
  /\ Cardinality(inflight) = 1
  /\ \A r \in inflight : r.id # last.id


\* C13. Accepted takes no action: the continuation of a "valid" response
\* changes neither the displayed position nor the snapshot nor the drag in
\* progress nor any other request; an accepted drop still displayed enters
\* the snapshot at the next drag-start, which captures the squares as that
\* drop wrote them.
C13_AcceptedTakesNoAction ==
  [][ /\ (last'.kind = "response" /\ last'.body = "valid") =>
           /\ board' = board
           /\ prev' = prev
           /\ drag' = drag
           /\ inflight' \subseteq inflight
           /\ \A r \in inflight : r.id # last'.id => r \in inflight'
           /\ moves'[last'.id].stage = "accepted"
      /\ last'.kind = "dragStart" =>
           \A i \in DropIds : \A s \in Squares :
             (moves[i].stage = "accepted" /\ origin[s] = i) =>
               /\ prev'[1][s] = board[s]
               /\ prevOrigin'[1][s] = i
    ]_vars

\* A drop was accepted while the snapshot still held the position before it,
\* and the drag-start that has just run captured the position with the
\* accepted drop in it.
C13_Witness ==
  /\ last.kind = "dragStart"
  /\ \E i \in DropIds :
       /\ moves[i].stage = "accepted"
       /\ snaps[i] # moves[i].opt
       /\ prev = Snapshot(moves[i].opt)
       /\ \E s \in Squares : prevOrigin[1][s] = i


(***************************************************************************)
(* Sequential use: the user waits for each verdict                         *)
(***************************************************************************)

\* A drag-start made only when no request is outstanding and every earlier
\* drop has had its response processed.
SeqDragStart(s) ==
  /\ inflight = {}
  /\ \A i \in DropIds : Settled(i)
  /\ DragStart(s)

SeqNext ==
  \/ \E s \in Squares : SeqDragStart(s)
  \/ \E t \in Targets : OnDrop(t)
  \/ DropPiece
  \/ \E r \in inflight, data \in Bodies : Respond(r, data)
  \/ \E r \in inflight : TransportFail(r)

SeqSpec == Init /\ [][SeqNext]_vars

\* The reference model: the start position with the first k drops applied,
\* each one only if its verdict was "valid".
RECURSIVE RefPosition(_)
RefPosition(k) ==
  IF k = 0 THEN StartPosition
  ELSE LET p == RefPosition(k - 1)
           m == moves[k]
       IN IF m.stage = "accepted"
          THEN dropPiece(p, m.source, m.target, p[m.source])
          ELSE p

\* C14. Sequential equivalence: when no drag-start happens while a request
\* is outstanding, the position displayed after each response is that of the
\* reference model, a rejected drop restores exactly the position displayed
\* before its own drag-start, and with every drop settled the display is the
\* start position with exactly the accepted drops applied in order.
C14_SequentialEquivalence ==
  /\ Responded => board = RefPosition(Len(moves))
  /\ RolledBack => board = snaps[last.id]
  /\ (inflight = {} /\ task = "idle" /\ \A i \in DropIds : Settled(i)) =>
       board = RefPosition(Len(moves))

\* The second drop has just been rejected after the first was accepted: the
\* board shows the first drop only.
C14_Witness ==
  /\ RolledBack
  /\ last.id = 2
  /\ moves[1].stage = "accepted"
  /\ board = moves[1].opt
  /\ board # StartPosition
  /\ board # moves[2].opt
  /\ board = RefPosition(2)


\* C15. Snapshot defined before use: the widget calls onDragStart before
\* every onDrop, so whenever a continuation can run (a drop is being made or
\* a request is in flight) and whenever one has run, the stored snapshot is
\* a position written by a drag-start; `undefined` is never what a rollback
\* hands to the board.
C15_SnapshotDefinedBeforeUse ==
  /\ (drag # NoDrag \/ inflight # {} \/ moves # << >>) =>
       /\ prev # Undefined
       /\ Len(snaps) >= 1
       /\ Len(snaps) >= Len(moves)
       /\ \E k \in 1..Len(snaps) : prev = Snapshot(snaps[k])
  /\ RolledBack => (prev # Undefined /\ board = prev[1])

\* The earliest use: the first drop of the run was rejected and the board
\* went back to the start position, captured by the only drag-start so far.
C15_Witness ==
  /\ RolledBack
  /\ Len(snaps) = 1
  /\ last.id = 1
  /\ prev = Snapshot(StartPosition)
  /\ board = StartPosition
  /\ moves[1].opt # StartPosition


\* C16. The snapshot has a single writer: only onDragStart changes it;
\* onDrop, the widget's drop, the continuation (either verdict) and a failed
\* request leave it as the latest drag-start captured it, so it keeps that
\* value after the drop settles until the next drag-start; and onDragStart
\* changes nothing else: it posts no request and leaves the displayed
\* position alone.
C16_SnapshotSingleWriter ==
  [][ /\ prev' # prev => last'.kind = "dragStart"
      /\ last'.kind \in {"onDrop", "dropPiece", "response", "fail"} =>
           /\ prev' = prev
           /\ prev' = Snapshot(LatestSnap)
      /\ last'.kind = "dragStart" =>
           /\ prev' = Snapshot(board)
           /\ board' = board
           /\ inflight' = inflight
           /\ moves' = moves
    ]_vars

\* Both drops are settled, the last one accepted: the snapshot is still the
\* capture of the last drag-start, which differs from what is displayed.
C16_Witness ==
  /\ Accepted
  /\ inflight = {}
  /\ \A i \in DropIds : Settled(i)
  /\ Len(snaps) = 2
  /\ prev = Snapshot(LatestSnap)
  /\ prev # Snapshot(board)
  /\ snaps[1] # snaps[2]

=============================================================================
